---- MODULE Spec2Model ----
(***************************************************************************)
(* The create-task-with-ai edge function                                   *)
(* (src/supabase/functions/create-task-with-ai/index.ts) running against   *)
(* the public.tasks table (src/supabase/migrations/1_init_tasks.sql).      *)
(*                                                                         *)
(* Every request is one invocation of the Deno.serve handler.  A handler   *)
(* suspends at its external calls: auth.getUser(), the insert, the         *)
(* completion call and the label update.  One action of the model is the   *)
(* answer to one call together with the code that follows it up to the     *)
(* next call or the return.  Requests interleave at these calls; the only  *)
(* state they share is the tasks table and the environment.                *)
(*                                                                         *)
(* A nullable value (null / undefined in the handler, NULL in the table)   *)
(* is a set with at most one element: NULL is {}, a present value v is {v}.*)
(* Text that the handler transforms (the completion content, labels) is a  *)
(* sequence of one-character strings, so that toLowerCase() and trim() are *)
(* computed character by character.                                        *)
(***************************************************************************)
EXTENDS Integers, Sequences, FiniteSets

\* ---------------------------------------------------------------- bounds
\* Number of requests the model lets arrive (they run concurrently).
NumRequests == 2

Requests == 1..NumRequests

\* ------------------------------------------------------------- nullables
NULL == {}
Some(v) == {v}
The(o) == CHOOSE v \in o : TRUE

\* ------------------------------------------------------------------ text
\* The letters String.prototype.toLowerCase changes, and what it changes
\* them to.
UpperCase ==
    <<"A","B","C","D","E","F","G","H","I","J","K","L","M",
      "N","O","P","Q","R","S","T","U","V","W","X","Y","Z">>

LowerCase ==
    <<"a","b","c","d","e","f","g","h","i","j","k","l","m",
      "n","o","p","q","r","s","t","u","v","w","x","y","z">>

\* String.prototype.toLowerCase on one character (index.ts:80).
LowerChar(c) ==
    IF \E i \in 1..Len(UpperCase) : UpperCase[i] = c
    THEN LowerCase[CHOOSE i \in 1..Len(UpperCase) : UpperCase[i] = c]
    ELSE c

\* Mutant of toLowerCase: the text keeps its case.
toLowerCaseNoop(s) == s

toLowerCase(s) == [i \in 1..Len(s) |-> LowerChar(s[i])]

\* The characters String.prototype.trim removes: white space and line
\* terminators.
IsWhiteSpace(c) == c \in {" ", "\t", "\n", "\r"}

RECURSIVE trimStart(_)
trimStart(s) ==
    IF s # <<>> /\ IsWhiteSpace(Head(s)) THEN trimStart(Tail(s)) ELSE s

RECURSIVE trimEnd(_)
trimEnd(s) ==
    IF s # <<>> /\ IsWhiteSpace(s[Len(s)])
    THEN trimEnd(SubSeq(s, 1, Len(s) - 1))
    ELSE s

\* Mutant of trim: only the start of the text is trimmed.
trimStartOnly(s) == trimStart(s)

\* String.prototype.trim (index.ts:81).
trim(s) == trimEnd(trimStart(s))

\* Array.prototype.includes (index.ts:87).
includes(arr, x) == \E i \in 1..Len(arr) : arr[i] = x

\* const validLabels (index.ts:86).
validLabels ==
    << <<"w","o","r","k">>,
       <<"p","e","r","s","o","n","a","l">>,
       <<"p","r","i","o","r","i","t","y">>,
       <<"s","h","o","p","p","i","n","g">>,
       <<"h","o","m","e">> >>

\* The check constraint on public.tasks.label (1_init_tasks.sql:8).
LabelCheck ==
    { <<"w","o","r","k">>,
      <<"p","e","r","s","o","n","a","l">>,
      <<"p","r","i","o","r","i","t","y">>,
      <<"s","h","o","p","p","i","n","g">>,
      <<"h","o","m","e">> }

\* ---------------------------------------------------------- environment
\* Configurations the function is deployed with: the values of
\* Deno.env.get("ENABLE_OPENAI") and Deno.env.get("OPENAI_API_KEY")
\* (index.ts:9-11), NULL for a variable that is not set.
Environments ==
    { [ENABLE_OPENAI |-> NULL,          OPENAI_API_KEY |-> Some("sk-test")],
      [ENABLE_OPENAI |-> Some("false"), OPENAI_API_KEY |-> Some("sk-test")],
      [ENABLE_OPENAI |-> Some("true"),  OPENAI_API_KEY |-> NULL] }

\* --------------------------------------------------------------- inputs
\* Authorization headers a request may carry; NULL is no header.
AuthHeaders == {NULL, Some("Bearer bad"), Some("Bearer tokA"), Some("Bearer tokB")}

\* What the identity service answers to auth.getUser() for a header
\* (index.ts:42-44): the user, or no user for a credential it rejects.
IdentityOf(header) ==
    IF header = Some("Bearer tokA") THEN Some("userA")
    ELSE IF header = Some("Bearer tokB") THEN Some("userB")
    ELSE NULL

\* Request bodies.  json = FALSE is a body req.json() rejects; otherwise
\* title and description are what the destructuring at index.ts:26 binds
\* (NULL when the key is absent).
Bodies ==
    { [json |-> FALSE, title |-> NULL,             description |-> NULL],
      [json |-> TRUE,  title |-> NULL,             description |-> NULL],
      [json |-> TRUE,  title |-> Some(""),         description |-> NULL],
      [json |-> TRUE,  title |-> Some("Buy milk"), description |-> Some("2 litres")] }

\* A CORS preflight (index.ts:21) and the POST requests.  The requests
\* without a header and those of the first user come with every body; the
\* rejected credential and the second user send the complete body.
Inbound ==
    { [method |-> "OPTIONS", authorization |-> NULL, body |-> CHOOSE b \in Bodies : ~b.json] }
    \cup { in \in [method : {"POST"}, authorization : AuthHeaders, body : Bodies] :
               \/ in.authorization \in {NULL, Some("Bearer tokA")}
               \/ in.body.title = Some("Buy milk") }

\* Texts the completion provider may put in choices[0].message.content.
Texts ==
    { <<"H","o","m","e"," ">>,
      <<"u","r","g","e","n","t">>,
      <<>>,
      <<"w","o","r","k","\n","h","o","m","e">> }

\* How openai.chat.completions.create (index.ts:72-77) may end: it rejects
\* (a timeout, a non-2xx status, a 429), or it resolves with no choice, with
\* a choice whose content is null, or with a choice whose content is a text.
CompletionOutcomes ==
    { [kind |-> k, content |-> NULL] :
        k \in {"timeout", "status500", "status429", "noChoices", "content"} }
    \cup { [kind |-> "content", content |-> Some(t)] : t \in Texts }

\* ---------------------------------------------------------------- state
VARIABLES
    env,         \* the function's environment variables
    tasks,       \* public.tasks: the sequence of rows, in insertion order
    now,         \* the store's clock
    req,         \* req[r]: the inbound request
    pc,          \* pc[r]: the call the handler is suspended at
    user,        \* user[r]: the handler's user (index.ts:43)
    data,        \* data[r]: the handler's data (index.ts:48)
    completion,  \* completion[r]: how the completion call ended
    label,       \* label[r]: the handler's label (index.ts:63, 87)
    response,    \* response[r]: the Response returned
    calls,       \* calls[r]: the external calls of the request, in order
    insertedBy,  \* insertedBy[i]: the request that inserted tasks[i]
    chatReq,     \* openai-chat: the inbound request
    chatPc,      \* openai-chat: the call the handler is suspended at
    chatUser,    \* openai-chat: the handler's user (openai-chat/index.ts:69)
    chatResponse, \* openai-chat: the Response returned
    chatCalls    \* openai-chat: the external calls of the request, in order

\* The state of the openai-chat invocation.
chatVars == <<chatReq, chatPc, chatUser, chatResponse, chatCalls>>

vars == <<env, tasks, now, req, pc, user, data, completion, label, response,
          calls, insertedBy, chatVars>>

\* Mutant of ENABLE_OPENAI: the value is compared with another literal.
ENABLE_OPENAI_WrongLiteral == env.ENABLE_OPENAI # Some("0")

\* const ENABLE_OPENAI (index.ts:11).
ENABLE_OPENAI == env.ENABLE_OPENAI # Some("false")

\* const OPENAI_API_KEY (index.ts:9).
OPENAI_API_KEY == env.OPENAI_API_KEY

\* JavaScript truthiness of a nullable string: null, undefined and "" are
\* falsy (index.ts:30, 64).
Truthy(o) == o # NULL /\ The(o) # ""

\* Truthiness of a nullable text (index.ts:90).
TruthyText(o) == o # NULL /\ The(o) # <<>>

\* ---------------------------------------------------------------- store
\* task_id uuid default gen_random_uuid() (1_init_tasks.sql:3): a value no
\* row of the table has.
gen_random_uuid == Len(tasks) + 1

\* The row public.tasks holds for the values of an insert: the columns the
\* insert names, and the column defaults for the rest (1_init_tasks.sql:2-13).
NewRow(values, id, ts) ==
    [ task_id     |-> id,
      user_id     |-> values.user_id,
      title       |-> values.title,
      description |-> values.description,
      image_url   |-> NULL,
      label       |-> NULL,
      due_date    |-> NULL,
      completed   |-> values.completed,
      created_at  |-> ts,
      updated_at  |-> ts ]

\* .from("tasks").insert(values).select().single() (index.ts:48-57), as the
\* handler sees it: {data, error} and the table afterwards.  The insert is
\* one transaction: an error leaves the table as it was.  `available` is
\* whether the store could be reached and accepted the row otherwise.
StoreInsert(values, available) ==
    IF ~available
    THEN [tasks |-> tasks, data |-> NULL, error |-> Some("store unavailable")]
    ELSE IF values.title = NULL
    THEN [tasks |-> tasks, data |-> NULL,
          error |-> Some("null value in column title violates not-null constraint")]
    ELSE LET row == NewRow(values, gen_random_uuid, now + 1)
         IN  [tasks |-> Append(tasks, row), data |-> Some(row), error |-> NULL]

\* Mutant of UpdateLabelIn: the update has no .eq filter and assigns the
\* label to every row.
UpdateLabelInNoFilter(table, id, newLabel, available) ==
    LET hit     == {i \in 1..Len(table) : table[i].task_id = id}
        updated == [i \in 1..Len(table) |-> [table[i] EXCEPT !.label = newLabel]]
    IN  IF ~available \/ hit = {}
        THEN [tasks |-> table, data |-> NULL, error |-> Some("store unavailable")]
        ELSE [tasks |-> updated, data |-> Some(updated[CHOOSE j \in hit : TRUE]),
              error |-> NULL]

\* Mutant of UpdateLabelIn: the statement inserts the row again with the
\* label instead of updating it in place.
UpdateLabelInAsInsert(table, id, newLabel, available) ==
    LET hit == {i \in 1..Len(table) : table[i].task_id = id}
    IN  IF ~available \/ hit = {}
        THEN [tasks |-> table, data |-> NULL, error |-> Some("store unavailable")]
        ELSE LET row == [table[CHOOSE j \in hit : TRUE] EXCEPT !.label = newLabel]
             IN  [tasks |-> Append(table, row), data |-> Some(row), error |-> NULL]

\* Mutant of UpdateLabelIn: the update assigns the completion flag along
\* with the label.
UpdateLabelInSetsCompleted(table, id, newLabel, available) ==
    LET hit == {i \in 1..Len(table) : table[i].task_id = id}
    IN  IF ~available \/ Cardinality(hit) # 1
        THEN [tasks |-> table, data |-> NULL, error |-> Some("store unavailable")]
        ELSE LET i   == CHOOSE j \in hit : TRUE
                 row == [table[i] EXCEPT !.label = newLabel, !.completed = TRUE]
             IN  [tasks |-> [table EXCEPT ![i] = row], data |-> Some(row), error |-> NULL]

\* .from("tasks").update({ label }).eq("task_id", id).select().single()
\* (index.ts:91-96) executed on `table`, as the handler sees it.  Only the
\* label column is assigned: the table has no trigger, so updated_at keeps
\* its value.
UpdateLabelIn(table, id, newLabel, available) ==
    LET hit == {i \in 1..Len(table) : table[i].task_id = id}
    IN  IF ~available
        THEN [tasks |-> table, data |-> NULL, error |-> Some("store unavailable")]
        ELSE IF newLabel # NULL /\ The(newLabel) \notin LabelCheck
        THEN [tasks |-> table, data |-> NULL,
              error |-> Some("new row violates check constraint tasks_label_check")]
        ELSE IF Cardinality(hit) # 1
        THEN [tasks |-> table, data |-> NULL,
              error |-> Some("JSON object requested, multiple (or no) rows returned")]
        ELSE LET i   == CHOOSE j \in hit : TRUE
                 row == [table[i] EXCEPT !.label = newLabel]
             IN  [tasks |-> [table EXCEPT ![i] = row], data |-> Some(row), error |-> NULL]

\* The update executed on the table of the store.
StoreUpdateLabel(id, newLabel, available) == UpdateLabelIn(tasks, id, newLabel, available)

\* ------------------------------------------------------------- responses
\* new Response(null, { status: 204 }) (index.ts:22).
PreflightResponse == [status |-> 204, task |-> NULL, error |-> NULL]

\* new Response(JSON.stringify(task)) (index.ts:102-107, 144-149); `task` is
\* the nullable data or updatedTask.
TaskResponse(task) == [status |-> 200, task |-> task, error |-> NULL]

\* The outer catch (index.ts:150-156).
ErrorResponse(message) == [status |-> 400, task |-> NULL, error |-> Some(message)]

\* The handler returns.
Respond(r, resp) ==
    /\ response' = [response EXCEPT ![r] = Some(resp)]
    /\ pc' = [pc EXCEPT ![r] = "done"]

\* The handler suspends at the call `at`.
Await(r, at) ==
    /\ pc' = [pc EXCEPT ![r] = at]
    /\ UNCHANGED response

\* The request's log of external calls grows by `events`: a call's name when
\* the handler issues it, then its name with "ok" or "failed" when it ends.
Called(r, events) == calls' = [calls EXCEPT ![r] = @ \o events]

\* -------------------------------------------------------------- handler
\* Mutant of AfterJson: a missing header is answered like a rejected
\* credential.
AfterJsonSameMessage(r, in) ==
    IF ~in.body.json
    THEN Respond(r, ErrorResponse("Unexpected token in JSON")) /\ UNCHANGED calls
    ELSE IF ~Truthy(in.authorization)
    THEN Respond(r, ErrorResponse("No user found")) /\ UNCHANGED calls
    ELSE Await(r, "getUser") /\ Called(r, <<"getUser">>)

\* req.json() has ended for the request `in`; the handler checks the
\* Authorization header, creates the client and calls auth.getUser()
\* (index.ts:26-44).  A body that is not JSON makes req.json() reject, which
\* the outer catch answers.
AfterJson(r, in) ==
    IF ~in.body.json
    THEN Respond(r, ErrorResponse("Unexpected token in JSON")) /\ UNCHANGED calls
    ELSE IF ~Truthy(in.authorization)
    THEN Respond(r, ErrorResponse("No authorization header")) /\ UNCHANGED calls
    ELSE Await(r, "getUser") /\ Called(r, <<"getUser">>)

\* The request arrives: a preflight is answered at once; otherwise the
\* handler reads the body of the request and runs to its first external
\* call, auth.getUser() (index.ts:20-44).
Arrive(r) ==
    /\ pc[r] = "idle"
    /\ \E in \in Inbound :
         /\ req' = [req EXCEPT ![r] = Some(in)]
         /\ IF in.method = "OPTIONS"
            THEN Respond(r, PreflightResponse) /\ UNCHANGED calls
            ELSE AfterJson(r, in)
    /\ UNCHANGED <<env, tasks, now, user, data, completion, label, insertedBy, chatVars>>

\* Mutant of AfterGetUser: the handler does not check that a user came back.
AfterGetUserNoCheck(r, u) ==
    /\ user' = [user EXCEPT ![r] = u]
    /\ Await(r, "insert")
    /\ Called(r, <<"insert">>)

\* auth.getUser() ends; the handler checks the user and issues the insert
\* (index.ts:42-57).
AfterGetUser(r, u) ==
    IF u = NULL
    THEN /\ Respond(r, ErrorResponse("No user found"))
         /\ UNCHANGED <<user, calls>>
    ELSE /\ user' = [user EXCEPT ![r] = u]
         /\ Await(r, "insert")
         /\ Called(r, <<"insert">>)

GetUser(r) ==
    /\ pc[r] = "getUser"
    /\ AfterGetUser(r, IdentityOf(The(req[r]).authorization))
    /\ UNCHANGED <<env, tasks, now, req, data, completion, label, insertedBy, chatVars>>

\* Mutant of InsertValues: the insert does not name the owner.
InsertValuesNoOwner(r) ==
    [ title       |-> The(req[r]).body.title,
      description |-> The(req[r]).body.description,
      completed   |-> FALSE,
      user_id     |-> NULL ]

\* The values of the insert (index.ts:50-55).
InsertValues(r) ==
    [ title       |-> The(req[r]).body.title,
      description |-> The(req[r]).body.description,
      completed   |-> FALSE,
      user_id     |-> user[r] ]

\* The enrichment guard (index.ts:64).
EnrichmentEnabled == Truthy(OPENAI_API_KEY) /\ ENABLE_OPENAI

\* Mutant of AfterInsert: the handler does not look at the insert's error.
AfterInsertNoErrorCheck(r, res) ==
    /\ data' = [data EXCEPT ![r] = res.data]
    /\ LET event == IF res.error = NULL THEN "insert ok" ELSE "insert failed"
       IN  IF EnrichmentEnabled
           THEN Await(r, "openai") /\ Called(r, <<event, "completion">>)
           ELSE Respond(r, TaskResponse(res.data)) /\ Called(r, <<event>>)

\* Mutant of AfterInsert: the insert's error is logged and the handler
\* returns data, which is null.
AfterInsertSwallowsError(r, res) ==
    IF res.error # NULL
    THEN /\ Respond(r, TaskResponse(res.data))
         /\ Called(r, <<"insert failed">>)
         /\ UNCHANGED data
    ELSE /\ data' = [data EXCEPT ![r] = res.data]
         /\ IF EnrichmentEnabled
            THEN Await(r, "openai") /\ Called(r, <<"insert ok", "completion">>)
            ELSE Respond(r, TaskResponse(res.data)) /\ Called(r, <<"insert ok">>)

\* The insert has ended with `res`; the handler throws its error, or goes
\* on to the completion call, or returns the task (index.ts:59-77, 143-149).
AfterInsert(r, res) ==
    IF res.error # NULL
    THEN /\ Respond(r, ErrorResponse(The(res.error)))
         /\ Called(r, <<"insert failed">>)
         /\ UNCHANGED data
    ELSE /\ data' = [data EXCEPT ![r] = res.data]
         /\ IF EnrichmentEnabled
            THEN Await(r, "openai") /\ Called(r, <<"insert ok", "completion">>)
            ELSE Respond(r, TaskResponse(res.data)) /\ Called(r, <<"insert ok">>)

\* The store executes the insert and the handler continues.
Insert(r) ==
    /\ pc[r] = "insert"
    /\ \E available \in BOOLEAN :
         LET res == StoreInsert(InsertValues(r), available)
         IN  /\ tasks' = res.tasks
             /\ insertedBy' = IF res.error = NULL THEN Append(insertedBy, r) ELSE insertedBy
             /\ AfterInsert(r, res)
    /\ now' = now + 1
    /\ UNCHANGED <<env, req, user, completion, label, chatVars>>

\* The completion call rejected, or resolved with no choice, so that
\* completion.choices[0].message throws (index.ts:72-79).
CompletionThrows(out) == out.kind # "content"

\* const suggestedLabel (index.ts:79-81): undefined for a null content.
suggestedLabel(out) ==
    IF out.content = NULL THEN NULL ELSE Some(trim(toLowerCase(The(out.content))))

\* Mutant of ValidLabel: the suggested label is taken as it is.
ValidLabelUnchecked(suggested) == suggested

\* label = validLabels.includes(suggestedLabel) ? suggestedLabel : null
\* (index.ts:87).
ValidLabel(suggested) ==
    IF suggested # NULL /\ includes(validLabels, The(suggested)) THEN suggested ELSE NULL

\* Mutant of OpenAICatch: the catch block throws the error again.
OpenAICatchRethrows(r) == Respond(r, ErrorResponse("openai error"))

\* The inner catch (index.ts:110-140): the error is logged and the handler
\* goes on to return data (index.ts:143-149).
OpenAICatch(r) == Respond(r, TaskResponse(data[r]))

\* The completion call has ended with `out`; the handler validates the
\* label and issues the update, or returns data (index.ts:79-96, 110-149).
AfterCompletion(r, out) ==
    IF CompletionThrows(out)
    THEN /\ OpenAICatch(r)
         /\ Called(r, <<"completion failed">>)
         /\ UNCHANGED label
    ELSE LET l == ValidLabel(suggestedLabel(out))
         IN  /\ label' = [label EXCEPT ![r] = l]
             /\ IF TruthyText(l)
                THEN Await(r, "update") /\ Called(r, <<"completion ok", "update">>)
                ELSE Respond(r, TaskResponse(data[r])) /\ Called(r, <<"completion ok">>)

\* The completion provider answers with one of `outcomes` and the handler
\* continues.
CompletionWith(r, outcomes) ==
    /\ pc[r] = "openai"
    /\ \E out \in outcomes :
         /\ completion' = [completion EXCEPT ![r] = Some(out)]
         /\ AfterCompletion(r, out)
    /\ UNCHANGED <<env, tasks, now, req, user, data, insertedBy, chatVars>>

Completion(r) == CompletionWith(r, CompletionOutcomes)

\* Mutant of AfterUpdate: the handler returns data after a successful update.
AfterUpdateReturnsData(r, res) ==
    IF res.error # NULL
    THEN Respond(r, TaskResponse(data[r])) /\ Called(r, <<"update failed">>)
    ELSE Respond(r, TaskResponse(data[r])) /\ Called(r, <<"update ok">>)

\* Mutant of AfterUpdate: the handler throws the update's error, which the
\* outer catch answers.
AfterUpdateThrows(r, res) ==
    IF res.error # NULL
    THEN Respond(r, ErrorResponse(The(res.error))) /\ Called(r, <<"update failed">>)
    ELSE Respond(r, TaskResponse(res.data)) /\ Called(r, <<"update ok">>)

\* The update has ended with `res`; the handler returns updatedTask, or data
\* when the update failed (index.ts:98-108, 143-149).
AfterUpdate(r, res) ==
    IF res.error # NULL
    THEN Respond(r, TaskResponse(data[r])) /\ Called(r, <<"update failed">>)
    ELSE Respond(r, TaskResponse(res.data)) /\ Called(r, <<"update ok">>)

\* The store executes the label update and the handler continues.
UpdateLabel(r) ==
    /\ pc[r] = "update"
    /\ \E available \in BOOLEAN :
         LET res == StoreUpdateLabel(The(data[r]).task_id, label[r], available)
         IN  /\ tasks' = res.tasks
             /\ AfterUpdate(r, res)
    /\ now' = now + 1
    /\ UNCHANGED <<env, req, user, data, completion, label, insertedBy, chatVars>>

\* -------------------------------------------------------- specification
Init ==
    /\ env \in Environments
    /\ tasks = <<>>
    /\ now = 0
    /\ req = [r \in Requests |-> NULL]
    /\ pc = [r \in Requests |-> "idle"]
    /\ user = [r \in Requests |-> NULL]
    /\ data = [r \in Requests |-> NULL]
    /\ completion = [r \in Requests |-> NULL]
    /\ label = [r \in Requests |-> NULL]
    /\ response = [r \in Requests |-> NULL]
    /\ calls = [r \in Requests |-> <<>>]
    /\ insertedBy = <<>>
    /\ chatReq = NULL
    /\ chatPc = "idle"
    /\ chatUser = NULL
    /\ chatResponse = NULL
    /\ chatCalls = <<>>

Next ==
    \E r \in Requests :
        \/ Arrive(r)
        \/ GetUser(r)
        \/ Insert(r)
        \/ Completion(r)
        \/ UpdateLabel(r)

Spec == Init /\ [][Next]_vars

\* ------------------------------------------------------------ properties
\* The request has returned its response.
Done(r) == pc[r] = "done"

\* The request is a task-creation request (not a preflight) that arrived.
IsCreate(r) == req[r] # NULL /\ The(req[r]).method = "POST"

\* The external-call log of the request holds the event.
Has(r, event) == \E i \in 1..Len(calls[r]) : calls[r][i] = event

\* The positions in the table of the rows the request inserted.
RowsBy(r) == {i \in 1..Len(tasks) : insertedBy[i] = r}

\* The rows of the table with the given id.
Stored(id) == {tasks[i] : i \in {j \in 1..Len(tasks) : tasks[j].task_id = id}}

\* The five labels of the enumeration.
FiveLabels ==
    { <<"w","o","r","k">>, <<"p","e","r","s","o","n","a","l">>,
      <<"p","r","i","o","r","i","t","y">>, <<"s","h","o","p","p","i","n","g">>,
      <<"h","o","m","e">> }

\* C1: a request whose credential was accepted and whose insert succeeded has
\* created exactly one row; the row's owner is the identity the credential
\* belongs to, and the row as created (the handler's data) has
\* completed = false and no label.
C1_OneRowOwnedUnlabelled ==
    \A r \in Requests :
        Has(r, "insert ok") =>
            /\ Cardinality(RowsBy(r)) = 1
            /\ \A i \in RowsBy(r) :
                 /\ tasks[i].user_id = IdentityOf(The(req[r]).authorization)
                 /\ tasks[i].user_id # NULL
                 /\ tasks[i].completed = FALSE
                 /\ data[r] # NULL
                 /\ The(data[r]).task_id = tasks[i].task_id
                 /\ The(data[r]).user_id = tasks[i].user_id
                 /\ The(data[r]).completed = FALSE
                 /\ The(data[r]).label = NULL

\* C1 witness: two requests of different users have each created their task.
C1_Witness ==
    \E r1, r2 \in Requests :
        /\ r1 # r2
        /\ Has(r1, "insert ok") /\ Has(r2, "insert ok")
        /\ Done(r1) /\ Done(r2)
        /\ user[r1] # user[r2]

\* The ways the label suggestion step fails: the call times out, answers a
\* non-2xx status or a 429, or answers a malformed (no choice, no content) or
\* empty completion.
SuggestionFailed(out) ==
    \/ out.kind \in {"timeout", "status500", "status429", "noChoices"}
    \/ out.content = NULL
    \/ out.content = Some(<<>>)

\* C2: when the label suggestion step has failed, the request has succeeded:
\* the response is 200 with the task as created, without a label, and the
\* stored row has no label.
C2_SuggestionFailureAbsorbed ==
    \A r \in Requests :
        (completion[r] # NULL /\ SuggestionFailed(The(completion[r]))) =>
            /\ Done(r)
            /\ data[r] # NULL
            /\ response[r] = Some([status |-> 200, task |-> data[r], error |-> NULL])
            /\ The(data[r]).label = NULL
            /\ Stored(The(data[r]).task_id) = data[r]

\* C2 witness: one request's completion call timed out, another's answered
\* an empty text, and both have returned.
C2_Witness ==
    \E r1, r2 \in Requests :
        /\ completion[r1] = Some([kind |-> "timeout", content |-> NULL])
        /\ completion[r2] = Some([kind |-> "content", content |-> Some(<<>>)])
        /\ Done(r1) /\ Done(r2)

\* The request made no store write and no completion call.
NoWriteNoCompletion(r) ==
    /\ RowsBy(r) = {}
    /\ ~Has(r, "insert") /\ ~Has(r, "update") /\ ~Has(r, "completion")

\* C3: a task-creation request without an Authorization header, whatever
\* its body, is answered with the missing-credential error and has made no
\* store write and no completion call.
C3_MissingCredential ==
    \A r \in Requests :
        (IsCreate(r) /\ Done(r) /\ The(req[r]).authorization = NULL) =>
            /\ response[r] # NULL
            /\ The(response[r]).error = Some("No authorization header")
            /\ The(response[r]).task = NULL
            /\ NoWriteNoCompletion(r)

\* The identity service has answered the request's getUser() with no user.
Rejected(r) == Has(r, "getUser") /\ pc[r] # "getUser" /\ user[r] = NULL

\* C4: a request whose credential the identity service rejected is answered
\* with the unauthenticated error and has made no store write.
C4_Unauthenticated ==
    \A r \in Requests :
        Rejected(r) =>
            /\ Done(r)
            /\ response[r] = Some([status |-> 400, task |-> NULL,
                                   error |-> Some("No user found")])
            /\ RowsBy(r) = {}
            /\ ~Has(r, "insert") /\ ~Has(r, "update")

\* C4 witness: a request with a rejected credential has been answered while
\* another request has created its task.
C4_Witness ==
    \E r1, r2 \in Requests :
        /\ Rejected(r1) /\ Done(r1)
        /\ The(req[r1]).authorization = Some("Bearer bad")
        /\ Has(r2, "insert ok")

\* The completion call answered a content whose normalized form is not one
\* of the five labels, or no content.
OutsideEnumeration(out) ==
    /\ out.kind = "content"
    /\ \/ out.content = NULL
       \/ trim(toLowerCase(The(out.content))) \notin FiveLabels

\* C5: every stored label is unset or one of the five labels; and a request
\* whose completion output is outside the enumeration issues no label update
\* and leaves its row's label unset.
C5_LabelEnumerated ==
    /\ \A i \in 1..Len(tasks) :
         tasks[i].label = NULL \/ The(tasks[i].label) \in FiveLabels
    /\ \A r \in Requests :
         (completion[r] # NULL /\ OutsideEnumeration(The(completion[r]))) =>
             /\ ~Has(r, "update")
             /\ label[r] = NULL
             /\ \A i \in RowsBy(r) : tasks[i].label = NULL

\* C5 witness: the completion answered "urgent" for one request and a text of
\* two lines for another, and a third label was stored for neither.
C5_Witness ==
    \E r1, r2 \in Requests :
        /\ completion[r1] = Some([kind |-> "content", content |-> Some(<<"u","r","g","e","n","t">>)])
        /\ completion[r2] = Some([kind |-> "content",
                                  content |-> Some(<<"w","o","r","k","\n","h","o","m","e">>)])
        /\ Done(r1) /\ Done(r2)

\* C6: in a request's sequence of external calls, the completion call is
\* issued only after the insert has succeeded (the row is then in the
\* table), and the label update only after that and after the completion
\* call has returned.
C6_InsertBeforeEnrichment ==
    \A r \in Requests :
        /\ \A i \in 1..Len(calls[r]) :
             /\ calls[r][i] = "completion" =>
                  /\ \E j \in 1..(i - 1) : calls[r][j] = "insert ok"
                  /\ RowsBy(r) # {}
             /\ calls[r][i] = "update" =>
                  \E j, k \in 1..(i - 1) :
                      j < k /\ calls[r][j] = "insert ok" /\ calls[r][k] = "completion ok"
        /\ pc[r] \in {"openai", "update"} => RowsBy(r) # {}

\* C6 witness: a request has gone through insert, completion and update.
C6_Witness ==
    \E r \in Requests :
        calls[r] = <<"getUser", "insert", "insert ok", "completion", "completion ok",
                     "update", "update ok">>

\* C7: with ENABLE_OPENAI = "false" no request makes a completion call, every
\* task returned has no label and every stored task has no label.
C7_DisabledNoCompletion ==
    env.ENABLE_OPENAI = Some("false") =>
        /\ \A r \in Requests :
             /\ ~Has(r, "completion")
             /\ completion[r] = NULL
             /\ (response[r] # NULL /\ The(response[r]).task # NULL) =>
                    The(The(response[r]).task).label = NULL
        /\ \A i \in 1..Len(tasks) : tasks[i].label = NULL

\* C7 witness: enrichment is disabled, the API key is set, and a request has
\* returned its task.
C7_Witness ==
    /\ env.ENABLE_OPENAI = Some("false")
    /\ env.OPENAI_API_KEY # NULL
    /\ \E r \in Requests :
         Done(r) /\ response[r] # NULL /\ The(response[r]).status = 200

\* C8: the task of a successful response is the stored row; it carries the
\* suggested label exactly when the label update succeeded; and a request
\* whose label update failed is still answered with a success, with the
\* task as created, without a label.
C8_ReturnsTaskAsLastKnown ==
    \A r \in Requests :
        /\ (IsCreate(r) /\ Done(r) /\ The(response[r]).status = 200) =>
              LET task == The(response[r]).task
              IN  /\ task # NULL
                  /\ Stored(The(task).task_id) = task
                  /\ (The(task).label # NULL) <=> Has(r, "update ok")
                  /\ Has(r, "update ok") => The(task).label = label[r]
                  /\ ~Has(r, "update ok") => task = data[r]
        /\ Has(r, "update failed") =>
              /\ Done(r)
              /\ response[r] = Some([status |-> 200, task |-> data[r], error |-> NULL])
              /\ The(data[r]).label = NULL

\* C8 witness: one request's label update succeeded and another's failed.
C8_Witness ==
    \E r1, r2 \in Requests :
        /\ Has(r1, "update ok") /\ Has(r2, "update failed")
        /\ Done(r1) /\ Done(r2)

\* C9: a request whose insert failed is answered with an error and no task,
\* and makes no completion call and no label update.
C9_InsertFailureTerminal ==
    \A r \in Requests :
        Has(r, "insert failed") =>
            /\ Done(r)
            /\ The(response[r]).status = 400
            /\ The(response[r]).error # NULL
            /\ The(response[r]).task = NULL
            /\ data[r] = NULL
            /\ RowsBy(r) = {}
            /\ ~Has(r, "completion") /\ ~Has(r, "update")
            /\ completion[r] = NULL

\* C9 witness: an insert failed on the not-null constraint of title, another
\* because the store was unavailable.
C9_Witness ==
    \E r1, r2 \in Requests :
        /\ Has(r1, "insert failed") /\ Has(r2, "insert failed")
        /\ The(req[r1]).body.title = NULL
        /\ The(req[r2]).body.title # NULL

\* C10: a task-creation request that has returned either succeeded with a
\* task, having created its row, or failed with an error, having created no
\* row; no error response follows the insert of the row.
C10_TwoOutcomes ==
    \A r \in Requests :
        (IsCreate(r) /\ Done(r)) =>
            LET resp == The(response[r])
            IN  \/ /\ resp.status = 200
                   /\ resp.task # NULL /\ resp.error = NULL
                   /\ Cardinality(RowsBy(r)) = 1
                \/ /\ resp.status = 400
                   /\ resp.task = NULL /\ resp.error # NULL
                   /\ RowsBy(r) = {}

\* C10 witness: a request whose completion call failed and a request whose
\* label update failed have both returned, next to a request that failed
\* before creation.
C10_Witness ==
    \E r1, r2 \in Requests :
        /\ Done(r1) /\ Done(r2)
        /\ \/ Has(r1, "completion failed") /\ Has(r2, "update failed")
           \/ Has(r1, "update failed") /\ RowsBy(r2) = {} /\ IsCreate(r2)

\* ------------------------------------------------------------- liveness
\* The answers the handler can count on: the identity service and the store
\* answer every call (with an error when they cannot serve it).  Nothing
\* makes the completion provider answer: the handler sets no timeout on
\* openai.chat.completions.create (index.ts:72-77).
Fairness ==
    \A r \in Requests :
        /\ WF_vars(GetUser(r))
        /\ WF_vars(Insert(r))
        /\ WF_vars(UpdateLabel(r))

SpecLive == Init /\ [][Next]_vars /\ Fairness

\* C11: once a request's row has been inserted the request eventually
\* returns a response, however the completion provider behaves, also when
\* the completion call never returns.
C11_NeverBlocksOnEnrichment ==
    \A r \in Requests : Has(r, "insert ok") ~> Done(r)

\* C12: after a successful label update the row's updated_at is later than
\* its value at creation (its created_at, which the insert set it to).
C12_UpdateRefreshesTimestamp ==
    \A r \in Requests :
        Has(r, "update ok") =>
            \A i \in RowsBy(r) :
                /\ tasks[i].label # NULL
                /\ tasks[i].updated_at > tasks[i].created_at
                /\ tasks[i].updated_at > The(data[r]).updated_at

\* ------------------------------------------------------ label parsing
\* The specification of the label parsing: one request, and a completion
\* that answers any of the texts below.

\* Longest run of white space put before and after a word.
MaxPad == 1

\* The upper-case form of a letter.
UpperChar(c) ==
    IF \E i \in 1..Len(LowerCase) : LowerCase[i] = c
    THEN UpperCase[CHOOSE i \in 1..Len(LowerCase) : LowerCase[i] = c]
    ELSE c

\* A word as it is, with a capital first letter, or in capitals.
Cased(w, casing) ==
    [i \in 1..Len(w) |->
        IF casing = "upper" \/ (casing = "capital" /\ i = 1) THEN UpperChar(w[i]) ELSE w[i]]

\* The five labels, a word that is no label, a text of two words and the
\* empty text.
Words ==
    { validLabels[i] : i \in 1..Len(validLabels) }
    \cup { <<"u","r","g","e","n","t">>, <<"w","o","r","k"," ","h","o","m","e">>, <<>> }

\* Runs of blanks and line breaks of at most MaxPad characters.
Pads == UNION { [1..n -> {" ", "\n"}] : n \in 0..MaxPad }

\* A further line after the first.
Tails == { <<"\n","h","o","m","e">>, <<"\n","o","k">> }

\* Texts choices[0].message.content may be: a word in some casing, white
\* space around it, and possibly a further line.
ParseTexts ==
    { pre \o Cased(w, casing) \o post :
        pre \in Pads, w \in Words, casing \in {"lower", "capital", "upper"},
        post \in Pads \cup Tails }

ParseOutcomes == { [kind |-> "content", content |-> Some(t)] : t \in ParseTexts }

NextParse ==
    \/ Arrive(1)
    \/ GetUser(1)
    \/ Insert(1)
    \/ CompletionWith(1, ParseOutcomes)
    \/ UpdateLabel(1)

SpecParse == Init /\ [][NextParse]_vars

\* The text is the label `l` in some casing with nothing but white space
\* before and after it.
Matches(t, l) ==
    \E a \in 0..Len(t) :
        /\ a + Len(l) <= Len(t)
        /\ \A i \in 1..a : IsWhiteSpace(t[i])
        /\ \A i \in 1..Len(l) : LowerChar(t[a + i]) = l[i]
        /\ \A i \in (a + Len(l) + 1)..Len(t) : IsWhiteSpace(t[i])

\* The text up to its first line break.
RECURSIVE FirstLine(_)
FirstLine(t) ==
    IF t = <<>> \/ Head(t) = "\n" THEN <<>> ELSE <<Head(t)>> \o FirstLine(Tail(t))

\* The text has a first line that is not blank and, after a line break,
\* more text that is not blank.
HasFurtherLine(t) ==
    \E i, j, k \in 1..Len(t) :
        i < j /\ j < k /\ ~IsWhiteSpace(t[i]) /\ t[j] = "\n" /\ ~IsWhiteSpace(t[k])

\* The completion call of the request resolved with a text.
Answered(r) ==
    /\ completion[r] # NULL
    /\ The(completion[r]).kind = "content"
    /\ The(completion[r]).content # NULL

ContentOf(r) == The(The(completion[r]).content)

\* C13 as stated: the label of a request is decided by the first line of
\* the completion text alone: it is the label that line is (in any casing,
\* white space around it), and no label when that line is no label.
C13_FirstLineOnly ==
    \A r \in Requests :
        Answered(r) =>
            /\ \A l \in FiveLabels :
                   Matches(FirstLine(ContentOf(r)), l) => label[r] = Some(l)
            /\ (\A l \in FiveLabels : ~Matches(FirstLine(ContentOf(r)), l)) =>
                   label[r] = NULL

\* C13 as amended: the label is decided by the whole completion text: it is
\* the label the text is in any casing with only white space (blanks, line
\* breaks) around it; no label for any other text, in particular for a first
\* line followed by a further line that is not blank.
C13_WholeTextParsed ==
    \A r \in Requests :
        Answered(r) =>
            /\ \A l \in FiveLabels : Matches(ContentOf(r), l) => label[r] = Some(l)
            /\ (\A l \in FiveLabels : ~Matches(ContentOf(r), l)) => label[r] = NULL
            /\ HasFurtherLine(ContentOf(r)) => (label[r] = NULL /\ ~Has(r, "update"))

\* C13 witness: the completion answered "work", a line break and "home", and
\* the request returned its task without a label.
C13_Witness ==
    \E r \in Requests :
        /\ Answered(r)
        /\ ContentOf(r) = <<"w","o","r","k","\n","h","o","m","e">>
        /\ Done(r)
        /\ The(The(response[r]).task).label = NULL

\* The creation request carries no title or the empty title.
TitleMissingOrEmpty(r) ==
    /\ IsCreate(r)
    /\ The(req[r]).body.json
    /\ The(req[r]).body.title \in {NULL, Some("")}

\* C14: a creation request whose title is missing or empty is answered with
\* an error and inserts nothing, and no stored task has a missing or empty
\* title.
C14_TitleRequired ==
    /\ \A i \in 1..Len(tasks) : tasks[i].title \notin {NULL, Some("")}
    /\ \A r \in Requests :
           (TitleMissingOrEmpty(r) /\ Done(r)) =>
               /\ The(response[r]).error # NULL
               /\ RowsBy(r) = {}

\* C15: when the completion text is one of the five labels in any casing
\* with white space around it, the request takes the lower-case trimmed
\* label, issues the update with it, and once the update succeeded that
\* label is the one stored and the one returned; a stored label is never
\* anything but the normalised completion text.
C15_LabelNormalised ==
    \A r \in Requests :
        /\ \A l \in FiveLabels :
               (Answered(r) /\ Matches(ContentOf(r), l)) =>
                   /\ label[r] = Some(l)
                   /\ Has(r, "update")
                   /\ Has(r, "update ok") =>
                          /\ \A i \in RowsBy(r) : tasks[i].label = Some(l)
                          /\ Done(r)
                          /\ The(The(response[r]).task).label = Some(l)
        /\ \A i \in RowsBy(r) :
               tasks[i].label # NULL =>
                   /\ Answered(r)
                   /\ Matches(ContentOf(r), The(tasks[i].label))

\* C15 witness: the completion answered "Work " and the request stored and
\* returned the label "work".
C15_Witness ==
    \E r \in Requests :
        /\ Answered(r)
        /\ ContentOf(r) = <<"W","o","r","k"," ">>
        /\ Has(r, "update ok")
        /\ \E i \in RowsBy(r) : tasks[i].label = Some(<<"w","o","r","k">>)
        /\ The(The(response[r]).task).label = Some(<<"w","o","r","k">>)

\* The requests whose insert succeeded.
Inserted == {r \in Requests : Has(r, "insert ok")}

\* C16: under any interleaving the table holds exactly one row for each
\* request whose insert succeeded, also for requests of the same owner with
\* the same payload; the task ids are pairwise distinct; and every row is
\* the row its request inserted, with the label changed only by the update
\* of that same request.
C16_IndependentRows ==
    /\ Len(tasks) = Cardinality(Inserted)
    /\ \A r \in Inserted : Cardinality(RowsBy(r)) = 1
    /\ \A i, j \in 1..Len(tasks) : tasks[i].task_id = tasks[j].task_id => i = j
    /\ \A i \in 1..Len(tasks) :
           LET r == insertedBy[i]
           IN  tasks[i] = [The(data[r]) EXCEPT
                              !.label = IF Has(r, "update ok") THEN label[r] ELSE NULL]

\* C16 witness: two requests of the same owner with the same payload both
\* inserted a row, and one of them has updated its label while the other
\* row has none.
C16_Witness ==
    \E r, q \in Inserted :
        /\ r # q
        /\ The(req[r]) = The(req[q])
        /\ Has(r, "update ok")
        /\ ~Has(q, "update ok")
        /\ Len(tasks) = 2
        /\ \E i \in RowsBy(r) : tasks[i].label # NULL
        /\ \E i \in RowsBy(q) : tasks[i].label = NULL

\* The row of the table with every column but updated_at.
ButTimestamp(row) == [row EXCEPT !.updated_at = 0]

\* C17: once a request's label update has succeeded, applying the same
\* update again (same task, same label) succeeds and leaves the table with
\* the same rows: the label and every other column except possibly the
\* update timestamp are as after the first application.
C17_UpdateIdempotent ==
    \A r \in Requests :
        Has(r, "update ok") =>
            LET again == UpdateLabelIn(tasks, The(data[r]).task_id, label[r], TRUE)
            IN  /\ again.error = NULL
                /\ Len(again.tasks) = Len(tasks)
                /\ \A i \in 1..Len(tasks) :
                       ButTimestamp(again.tasks[i]) = ButTimestamp(tasks[i])
                /\ \A i \in RowsBy(r) :
                       /\ again.tasks[i].label = label[r]
                       /\ ButTimestamp(The(again.data)) = ButTimestamp(tasks[i])

\* C17 witness: a request's label update succeeded and its row carries the
\* label.
C17_Witness ==
    \E r \in Requests :
        /\ Has(r, "update ok")
        /\ label[r] # NULL
        /\ \E i \in RowsBy(r) : tasks[i].label = label[r]

\* The creation request came without an Authorization header and was
\* answered.
NoCredential(r) == IsCreate(r) /\ Done(r) /\ The(req[r]).authorization = NULL

\* C18: the response to a request without an Authorization header differs
\* from the response to a request whose credential the identity service
\* rejected: the former, given before any identity call, names the missing
\* header once the body was read, and the latter never does.
C18_CredentialErrorsDistinguished ==
    /\ \A r, q \in Requests :
           (NoCredential(r) /\ Rejected(q)) => response[r] # response[q]
    /\ \A r \in Requests :
           NoCredential(r) =>
               /\ ~Has(r, "getUser")
               /\ The(response[r]).error # Some("No user found")
               /\ The(req[r]).body.json =>
                      The(response[r]).error = Some("No authorization header")
    /\ \A q \in Requests :
           Rejected(q) => The(response[q]).error # Some("No authorization header")

\* C18 witness: one request without a header and one with a rejected
\* credential have both been answered.
C18_Witness ==
    \E r, q \in Requests :
        /\ NoCredential(r)
        /\ The(req[r]).body.json
        /\ Rejected(q)
        /\ Done(q)

\* C19: a request whose credential the identity service rejected is
\* answered with status 401.
C19_Unauthenticated401 ==
    \A r \in Requests :
        (Rejected(r) /\ Done(r)) => The(response[r]).status = 401

\* --------------------------------------------------------- openai-chat
\* Request bodies of openai-chat (openai-chat/index.ts:23-29, 96): a body
\* req.json() rejects, a body with neither key, a prompt, a messages array
\* that is empty, and one with a message.
ChatBodies ==
    { [json |-> FALSE, prompt |-> NULL,       messages |-> NULL],
      [json |-> TRUE,  prompt |-> NULL,       messages |-> NULL],
      [json |-> TRUE,  prompt |-> Some("hi"), messages |-> NULL],
      [json |-> TRUE,  prompt |-> NULL,       messages |-> Some(<<>>)],
      [json |-> TRUE,  prompt |-> NULL,       messages |-> Some(<<"hi">>)] }

\* The requests to openai-chat: a preflight, another method, and the POST
\* requests.
ChatInbound ==
    { [method |-> m, authorization |-> NULL, body |-> CHOOSE b \in ChatBodies : ~b.json] :
        m \in {"OPTIONS", "GET"} }
    \cup [method : {"POST"}, authorization : AuthHeaders, body : ChatBodies]

\* A Response of openai-chat: its status and the content or error of its
\* body.
ChatResponse(status, content, error) ==
    [status |-> status, content |-> content, error |-> error]

ChatRespond(resp) ==
    /\ chatResponse' = Some(resp)
    /\ chatPc' = "done"

\* The request arrives; the handler answers a preflight and a method that
\* is not POST, checks the Authorization header and calls auth.getUser()
\* (openai-chat/index.ts:31-72).
ChatArrive ==
    /\ chatPc = "idle"
    /\ \E in \in ChatInbound :
         /\ chatReq' = Some(in)
         /\ IF in.method = "OPTIONS"
            THEN ChatRespond(ChatResponse(204, NULL, NULL)) /\ UNCHANGED chatCalls
            ELSE IF in.method # "POST"
            THEN /\ ChatRespond(ChatResponse(405, NULL, Some("Method not allowed")))
                 /\ UNCHANGED chatCalls
            ELSE IF ~Truthy(in.authorization)
            THEN /\ ChatRespond(ChatResponse(401, NULL, Some("No authorization header")))
                 /\ UNCHANGED chatCalls
            ELSE /\ chatPc' = "getUser"
                 /\ chatCalls' = chatCalls \o <<"getUser">>
                 /\ UNCHANGED chatResponse
    /\ UNCHANGED <<env, tasks, now, req, pc, user, data, completion, label, response,
                   calls, insertedBy, chatUser>>

\* let messages (openai-chat/index.ts:109-115): the prompt as one message,
\* or the messages of the body.
ChatMessages(body) ==
    IF Truthy(body.prompt) THEN Some(<<The(body.prompt)>>) ELSE body.messages

\* The handler after the user check: the key check, req.json() and the
\* validation of the body, up to the completion call
\* (openai-chat/index.ts:84-145).
ChatAfterUserCheck(in) ==
    IF ~Truthy(OPENAI_API_KEY)
    THEN /\ ChatRespond(ChatResponse(500, NULL, Some("OpenAI API key not configured")))
         /\ UNCHANGED chatCalls
    ELSE IF ~in.body.json
    THEN /\ ChatRespond(ChatResponse(500, NULL, Some("Unexpected token in JSON")))
         /\ UNCHANGED chatCalls
    ELSE IF in.body.messages = NULL /\ ~Truthy(in.body.prompt)
    THEN /\ ChatRespond(ChatResponse(400, NULL,
                                     Some("Either 'messages' or 'prompt' is required")))
         /\ UNCHANGED chatCalls
    ELSE IF The(ChatMessages(in.body)) = <<>>
    THEN /\ ChatRespond(ChatResponse(400, NULL, Some("Invalid messages format")))
         /\ UNCHANGED chatCalls
    ELSE /\ chatPc' = "openai"
         /\ chatCalls' = chatCalls \o <<"completion">>
         /\ UNCHANGED chatResponse

\* Mutant of ChatAfterGetUser: the handler does not check that a user came
\* back.
ChatAfterGetUserNoCheck(in, u) ==
    /\ chatUser' = u
    /\ ChatAfterUserCheck(in)

\* auth.getUser() has ended; the handler answers 401 when no user came back
\* and goes on otherwise (openai-chat/index.ts:68-82).
ChatAfterGetUser(in, u) ==
    IF u = NULL
    THEN /\ ChatRespond(ChatResponse(401, NULL, Some("Unauthorized")))
         /\ UNCHANGED <<chatUser, chatCalls>>
    ELSE /\ chatUser' = u
         /\ ChatAfterUserCheck(in)

ChatGetUser ==
    /\ chatPc = "getUser"
    /\ ChatAfterGetUser(The(chatReq), IdentityOf(The(chatReq).authorization))
    /\ UNCHANGED <<env, tasks, now, req, pc, user, data, completion, label, response,
                   calls, insertedBy, chatReq>>

\* The status the catch answers a rejected completion call with: the
\* status of error.response when the error carries one, 500 otherwise
\* (openai-chat/index.ts:172-203).
ChatCatchStatuses(out) ==
    IF out.kind = "status429" THEN {429, 500} ELSE {500}

\* The completion call has ended (openai-chat/index.ts:145-171).
ChatAfterCompletion(out) ==
    IF out.kind \in {"timeout", "status500", "status429"}
    THEN \E st \in ChatCatchStatuses(out) :
             ChatRespond(ChatResponse(st, NULL, Some("OpenAI API error")))
    ELSE IF ~TruthyText(out.content)
    THEN ChatRespond(ChatResponse(500, NULL, Some("No response from OpenAI")))
    ELSE ChatRespond(ChatResponse(200, out.content, NULL))

ChatCompletion ==
    /\ chatPc = "openai"
    /\ \E out \in CompletionOutcomes :
         /\ ChatAfterCompletion(out)
         /\ chatCalls' = chatCalls \o
                <<IF CompletionThrows(out) THEN "completion failed" ELSE "completion ok">>
    /\ UNCHANGED <<env, tasks, now, req, pc, user, data, completion, label, response,
                   calls, insertedBy, chatReq, chatUser>>

\* One request to create-task-with-ai and one to openai-chat, interleaved.
NextBoth ==
    \/ Arrive(1)
    \/ GetUser(1)
    \/ Insert(1)
    \/ Completion(1)
    \/ UpdateLabel(1)
    \/ ChatArrive
    \/ ChatGetUser
    \/ ChatCompletion

SpecBoth == Init /\ [][NextBoth]_vars

\* The log holds `first` at a position before one of `second`.
Before(log, first, second) ==
    \E i, j \in 1..Len(log) : i < j /\ log[i] = first /\ log[j] = second

\* C20: in both functions a completion call is issued for a request only
\* after the identity check of that request succeeded: the request carries
\* an Authorization header, getUser() was called before the completion call
\* and returned a user.
C20_UserValidatedBeforeCompletion ==
    /\ \A r \in Requests :
           Has(r, "completion") =>
               /\ The(req[r]).authorization # NULL
               /\ user[r] # NULL
               /\ user[r] = IdentityOf(The(req[r]).authorization)
               /\ Before(calls[r], "getUser", "completion")
    /\ (\E i \in 1..Len(chatCalls) : chatCalls[i] = "completion") =>
           /\ The(chatReq).authorization # NULL
           /\ chatUser # NULL
           /\ chatUser = IdentityOf(The(chatReq).authorization)
           /\ Before(chatCalls, "getUser", "completion")

\* C20 witness: both functions have issued their completion call.
C20_Witness ==
    /\ Has(1, "completion")
    /\ \E i \in 1..Len(chatCalls) : chatCalls[i] = "completion"
    /\ chatPc = "done"
    /\ The(chatResponse).status = 200

\* The row with every column but the label and the update timestamp.
ButLabelAndTimestamp(row) == [row EXCEPT !.label = NULL, !.updated_at = 0]

\* The step is the label update of request `r` ending.
UpdateStepOf(r) == pc[r] = "update" /\ pc'[r] = "done"

\* C21: in every step every row already in the table keeps its id, owner,
\* title, description, completion flag and creation timestamp (at most its
\* label and update timestamp change), and a row changes only in the label
\* update of the request that inserted it; so no other row is modified and
\* the owner of a task never changes after creation.
C21_EnrichmentFrame ==
    [][ /\ Len(tasks') >= Len(tasks)
        /\ \A i \in 1..Len(tasks) :
               /\ ButLabelAndTimestamp(tasks'[i]) = ButLabelAndTimestamp(tasks[i])
               /\ tasks'[i].user_id = tasks[i].user_id
               /\ tasks'[i] # tasks[i] => UpdateStepOf(insertedBy[i])
        /\ \A r \in Requests :
               UpdateStepOf(r) =>
                   \A i \in 1..Len(tasks) : i \notin RowsBy(r) => tasks'[i] = tasks[i]
      ]_vars

\* C21 witness: a request's label update has changed the label of its row,
\* which has the owner, title, description, completion flag and creation
\* timestamp it was inserted with, while the row of another request, still
\* under way, is in the table.
C21_Witness ==
    \E r, q \in Requests :
        /\ r # q
        /\ Has(r, "update ok")
        /\ \E i \in RowsBy(r) :
               /\ tasks[i].label # NULL
               /\ ButLabelAndTimestamp(tasks[i]) = ButLabelAndTimestamp(The(data[r]))
        /\ pc[q] \in {"openai", "update"}
        /\ \E j \in RowsBy(q) : tasks[j] = The(data[q])

====
